---- MODULE Spec2Model ----
(***************************************************************************)
(* Model of scripts/permission-hook.py: the Banjo permission hook.  One    *)
(* invocation reads a permission query from standard input, relays it to   *)
(* the approval authority over a Unix stream socket, waits for one         *)
(* newline-framed JSON reply and maps it to an allow / deny document on    *)
(* standard output, or to silence (defer to the caller's default).         *)
(*                                                                         *)
(* Byte strings are modelled as sequences of tokens.  A token is one of    *)
(*   nl    a newline byte (the only whitespace the model sends)            *)
(*   doc   the complete JSON text of a value v                             *)
(*   head  the JSON text of an object v cut at a token boundary ...        *)
(*   tail  ... and the rest of that text                                   *)
(*   junk  a non-empty run of bytes that are valid UTF-8, hold no          *)
(*         whitespace and cannot occur in any JSON text (such as "@@")     *)
(*   bad8  a byte that is not valid UTF-8 (0xFF)                           *)
(*                                                                         *)
(* The request is modelled in more detail: the query is a tree of JSON     *)
(* values, json.dumps turns the request dict into a sequence of            *)
(* characters (a piece of a string stands for a run of plain ASCII), and   *)
(* a decoder of JSON texts reads that sequence back.                       *)
(***************************************************************************)
EXTENDS Integers, Sequences, FiniteSets

VARIABLES
    env,            \* value of BANJO_PERMISSION_SOCKET
    stdin,          \* what the caller wrote to standard input
    authority,      \* the JSON value the authority serialises in its reply
    pc,             \* position of main()
    stdinRead,      \* TRUE once json.load(sys.stdin) has run
    request,        \* the request dict built from the input
    sock,           \* "none", "open", "connected" or "closed" (by sock.close())
    sent,           \* how much of request_bytes reached the peer
    inflight,       \* bytes the peer has written and the hook has not read
    peerClosed,     \* the peer has closed its end
    response_bytes, \* the accumulated reply
    response,       \* result of json.loads on the reply
    stdout,         \* documents printed to standard output
    stderr,         \* diagnostics printed to the error channel
    exitStatus,     \* {} while the process runs, then {status}
    raised,         \* the exception that ended main(), if any
    waited,         \* seconds the current socket call has been blocked
    elapsed         \* seconds since sock.connect() was entered (saturating)

vars == <<env, stdin, authority, pc, stdinRead, request, sock, sent, inflight,
          peerClosed, response_bytes, response, stdout, stderr, exitStatus,
          raised, waited, elapsed>>

----------------------------------------------------------------------------
(* Bounds of the model *)

\* The peer writes at most this many tokens (runs of junk count once).
MaxStream == 3

(* Program constants *)

\* sock.settimeout(60)
SOCKET_TIMEOUT == 60

\* The clock advances in steps of half the socket timeout.
TickSeconds == SOCKET_TIMEOUT \div 2

\* The elapsed-time observer saturates one step above the timeout.
ElapsedCap == SOCKET_TIMEOUT + TickSeconds

Min(a, b) == IF a < b THEN a ELSE b

----------------------------------------------------------------------------
(* JSON values *)

\* A key that is not present in a JSON object.
Absent == "<absent>"
\* JSON null (Python None).
JNull == "<null>"

\* exitStatus while the process runs; {0} or {1} once it has exited.
NotExited == {}

Obj(d, m) == [kind |-> "object", decision |-> d, message |-> m]
Arr == [kind |-> "array", decision |-> Absent, message |-> Absent]
NoValue == [kind |-> "none", decision |-> Absent, message |-> Absent]

\* The replies the authority may formulate: objects with and without the
\* two keys, and a JSON value that is not an object.
ResponseValues ==
    {Obj("allow", m) : m \in {Absent, "no"}}
    \cup {Obj("deny", m) : m \in {Absent, "", "no", JNull}}
    \cup {Obj(d, Absent) : d \in {Absent, "", "ask", "yes"}}
    \cup {Arr}

\* The characters that JSON texts treat specially.  Every other piece of a
\* string stands for a run of plain ASCII characters.
QUOTE == "\""
BSLASH == "\\"
LF == "\n"
EACUTE == "U+00E9"

\* A JSON value as a tree: k is its kind, s the pieces of a string or the
\* literal of a number, c the members of an object or array in order.
JV(k, s, c) == [k |-> k, s |-> s, c |-> c]
Member(key, val) == [key |-> key, val |-> val]
JStr(chars) == JV("str", chars, <<>>)
JNum(literal) == JV("num", <<literal>>, <<>>)
JNone == JV("null", <<>>, <<>>)
JObject(members) == JV("obj", <<>>, members)
JArray(values) == JV("arr", <<>>, [i \in 1..Len(values) |-> Member(<<>>, values[i])])
\* A key that is not present in the query.
Missing == JV("absent", <<>>, <<>>)

\* The caller's query: each of the four keys is present or not.
Query(n, i, u, s) == [tool_name |-> n, tool_input |-> i, tool_use_id |-> u, session_id |-> s]
NoRequest == Query(Missing, Missing, Missing, Missing)
Queries ==
    {Query(JStr(<<"Bash">>), JObject(<<Member(<<"command">>, JStr(<<"ls">>))>>),
           Missing, JStr(<<"s1">>))}

\* The queries of the request round trip: no key at all; every key, with
\* nested tool_input, strings that need escaping and numbers; single keys
\* missing; values that are not of the expected type; a number beyond the
\* range of a double.
NestedInput ==
    JObject(<<Member(<<"command">>, JStr(<<"echo ", QUOTE, "a", BSLASH, "b", QUOTE, LF, EACUTE>>)),
              Member(<<"args">>, JArray(<<JNum("7"), JObject(<<Member(<<"deep">>, JNone)>>),
                                          JArray(<<>>)>>)),
              Member(<<"timeout">>, JNum("1E2")),
              Member(<<"ratio">>, JNum("1.5"))>>)
RequestQueries ==
    {NoRequest,
     Query(JStr(<<"Bash">>), NestedInput, JStr(<<"toolu_", QUOTE>>), JStr(<<"s1">>)),
     Query(JStr(<<"Bash">>), Missing, JStr(<<"toolu_1">>), JStr(<<"s1">>)),
     Query(Missing, JObject(<<>>), JStr(<<>>), Missing),
     Query(JNone, JArray(<<JStr(<<"x">>)>>), JNum("7"), JStr(<<"s1">>)),
     Query(JStr(<<"Bash">>), JObject(<<Member(<<"timeout">>, JNum("1e400"))>>),
           Missing, JStr(<<"s1">>))}

\* Standard input: text that is not JSON, bytes that are not UTF-8, a JSON
\* value that is not an object, or a JSON object.
StdinInputs ==
    {[kind |-> "notjson", query |-> NoRequest],
     [kind |-> "badutf8", query |-> NoRequest],
     [kind |-> "array", query |-> NoRequest]}
    \cup {[kind |-> "object", query |-> q] : q \in Queries}

EnvValues == {Absent, "", "/run/banjo.sock"}

----------------------------------------------------------------------------
(* Byte strings *)

Tok(t, v) == [t |-> t, v |-> v]
NL == Tok("nl", NoValue)
JUNK == Tok("junk", NoValue)
BAD8 == Tok("bad8", NoValue)

\* What the peer can write when its reply value is v.
PeerTokens(v) == {NL, JUNK, BAD8, Tok("doc", v), Tok("head", v), Tok("tail", v)}

\* a + b on byte strings: adjacent runs of junk are one run.
Cat(a, b) ==
    IF a # <<>> /\ b # <<>> /\ a[Len(a)].t = "junk" /\ b[1].t = "junk"
    THEN a \o Tail(b)
    ELSE a \o b

\* b"\n" in response_bytes
HasNewline(buf) == \E i \in 1..Len(buf) : buf[i].t = "nl"

\* bytes.decode("utf-8") raises UnicodeDecodeError on any invalid byte.
DecodeFails(buf) == \E i \in 1..Len(buf) : buf[i].t = "bad8"

\* str.strip(): drop the whitespace at both ends.
RECURSIVE LStrip(_)
LStrip(s) == IF s # <<>> /\ s[1].t = "nl" THEN LStrip(Tail(s)) ELSE s
RECURSIVE RStrip(_)
RStrip(s) == IF s # <<>> /\ s[Len(s)].t = "nl" THEN RStrip(SubSeq(s, 1, Len(s) - 1)) ELSE s
Strip(s) == RStrip(LStrip(s))

\* json.loads(text): the text is one JSON value, possibly with whitespace
\* between its tokens; anything else raises JSONDecodeError.
IsWhole(s) == Len(s) = 1 /\ s[1].t = "doc"
IsSplit(s) ==
    /\ Len(s) >= 2
    /\ s[1].t = "head" /\ s[Len(s)].t = "tail" /\ s[1].v = s[Len(s)].v
    /\ \A i \in 2..(Len(s) - 1) : s[i].t = "nl"
JsonLoads(s) ==
    IF IsWhole(s) \/ IsSplit(s)
    THEN [ok |-> TRUE, value |-> s[1].v]
    ELSE [ok |-> FALSE, value |-> NoValue]

----------------------------------------------------------------------------
(* The pure parts of main() *)

\* [mutant] only the empty string counts as not configured.
EndpointConfigured_EmptyOnly(path) == path # ""

\* `if not socket_path`: unset and empty both count as not configured.
EndpointConfigured(path) == path # Absent /\ path # ""

\* dict.get(key, default)
Get(d, key, default) == IF d[key] = Absent THEN default ELSE d[key]

\* json.load reads a number without fraction or exponent as an int, of any
\* size, and every other number as a float: the nearest double, and inf
\* when the number is beyond the range of a double.
IsIntLiteral(literal) == literal \in {"7"}
FloatOf(literal) ==
    CASE literal = "1.5" -> "1.5"
      [] literal = "1E2" -> "100.0"
      [] literal = "1e400" -> "inf"
PyNumber(literal) ==
    IF IsIntLiteral(literal)
    THEN JV("int", <<literal>>, <<>>)
    ELSE JV("float", <<FloatOf(literal)>>, <<>>)

\* json.load, line 29: the Python value of a JSON value.  Strings, null
\* and the structure of objects and arrays are kept as they are.
RECURSIVE PyLoad(_)
PyLoad(v) ==
    IF v.k = "num" THEN PyNumber(v.s[1])
    ELSE JV(v.k, v.s, [i \in 1..Len(v.c) |-> Member(v.c[i].key, PyLoad(v.c[i].val))])

\* input_data: the dict json.load returns for a query.
InputData(query) == [key \in DOMAIN query |-> PyLoad(query[key])]

\* input_data.get(key, default), lines 34-37.
InputGet(d, key, default) == IF d[key] = Missing THEN default ELSE d[key]

\* The request dict, lines 34-45.
BuildRequest(input_data) ==
    [tool_name   |-> InputGet(input_data, "tool_name", JStr(<<>>)),
     tool_input  |-> InputGet(input_data, "tool_input", JObject(<<>>)),
     tool_use_id |-> InputGet(input_data, "tool_use_id", JStr(<<>>)),
     session_id  |-> InputGet(input_data, "session_id", JStr(<<>>))]

\* json.dumps of one character of a string (ensure_ascii is on): quote,
\* backslash and control characters are escaped, and so is every character
\* that is not ASCII.
EscapeChar(ch) ==
    CASE ch = QUOTE -> <<BSLASH, QUOTE>>
      [] ch = BSLASH -> <<BSLASH, BSLASH>>
      [] ch = LF -> <<BSLASH, "n">>
      [] ch = EACUTE -> <<BSLASH, "u", "0", "0", "e", "9">>
      [] OTHER -> <<ch>>

RECURSIVE Escape(_)
Escape(chars) ==
    IF chars = <<>> THEN <<>> ELSE EscapeChar(Head(chars)) \o Escape(Tail(chars))

DumpString(chars) == <<QUOTE>> \o Escape(chars) \o <<QUOTE>>

\* json.dumps of a float: its repr, and Infinity for inf (allow_nan is on).
FloatRepr(f) == IF f = "inf" THEN "Infinity" ELSE f

\* json.dumps(value), line 54, with the default separators ", " and ": ".
RECURSIVE Dumps(_)
RECURSIVE DumpItems(_, _)
DumpItems(c, isObject) ==
    IF c = <<>> THEN <<>>
    ELSE (IF isObject THEN DumpString(c[1].key) \o <<":", " ">> ELSE <<>>)
         \o Dumps(c[1].val)
         \o (IF Len(c) > 1 THEN <<",", " ">> ELSE <<>>)
         \o DumpItems(Tail(c), isObject)
Dumps(v) ==
    CASE v.k = "str" -> DumpString(v.s)
      [] v.k = "int" -> <<v.s[1]>>
      [] v.k = "float" -> <<FloatRepr(v.s[1])>>
      [] v.k = "null" -> <<"null">>
      [] v.k = "obj" -> <<"{">> \o DumpItems(v.c, TRUE) \o <<"}">>
      [] v.k = "arr" -> <<"[">> \o DumpItems(v.c, FALSE) \o <<"]">>

\* The request dict as json.dumps sees it: four keys, in the order of the
\* dict display of lines 40-45.
RequestObject(r) ==
    JObject(<<Member(<<"tool_name">>, r.tool_name),
              Member(<<"tool_input">>, r.tool_input),
              Member(<<"tool_use_id">>, r.tool_use_id),
              Member(<<"session_id">>, r.session_id)>>)

\* request_bytes, line 54.
RequestBytes(r) == Dumps(RequestObject(r)) \o <<LF>>

\* Python truth value of a message: "" and None are false.
Truthy(m) == m # "" /\ m # JNull

AllowDoc ==
    [hookSpecificOutput |->
        [hookEventName |-> "PermissionRequest",
         decision |-> [behavior |-> "allow"]]]

DenyDoc(reason) ==
    [hookSpecificOutput |->
        [hookEventName |-> "PermissionRequest",
         decision |-> [behavior |-> "deny", message |-> reason]]]

DefaultDenyMessage == "Permission denied by user"

\* [mutant] the message is used as it is.
DenyReason_Verbatim(message) == message

\* `message or "Permission denied by user"`
DenyReason(message) == IF Truthy(message) THEN message ELSE DefaultDenyMessage

\* [mutant] the allow document carries the response's message.
HookOutput_AllowWithMessage(resp) ==
    LET decision == Get(resp, "decision", "ask")
        message  == Get(resp, "message", "")
    IN  IF decision = "allow"
        THEN <<[hookSpecificOutput |->
                  [hookEventName |-> "PermissionRequest",
                   decision |-> [behavior |-> "allow", message |-> message]]]>>
        ELSE IF decision = "deny" THEN <<DenyDoc(DenyReason(message))>>
        ELSE <<>>

\* [mutant] every decision that is not "allow" denies.
HookOutput_UnknownDenies(resp) ==
    LET decision == Get(resp, "decision", "ask")
        message  == Get(resp, "message", "")
    IN  IF decision = "allow" THEN <<AllowDoc>>
        ELSE <<DenyDoc(DenyReason(message))>>

\* [mutant] a decision that is neither "allow" nor "deny" is passed on to
\* the caller as the behavior of a document.
HookOutput_PassThrough(resp) ==
    LET decision == Get(resp, "decision", "ask")
        message  == Get(resp, "message", "")
    IN  IF decision = "allow" THEN <<AllowDoc>>
        ELSE IF decision = "deny" THEN <<DenyDoc(DenyReason(message))>>
        ELSE <<[hookSpecificOutput |->
                  [hookEventName |-> "PermissionRequest",
                   decision |-> [behavior |-> decision]]]>>

\* Lines 74-99: what is printed for a response object (nothing for "ask"
\* and for every decision that is neither "allow" nor "deny").
HookOutput(resp) ==
    LET decision == Get(resp, "decision", "ask")
        message  == Get(resp, "message", "")
    IN  IF decision = "allow" THEN <<AllowDoc>>
        ELSE IF decision = "deny" THEN <<DenyDoc(DenyReason(message))>>
        ELSE <<>>

\* An exception nobody catches: the interpreter prints a traceback to
\* the error channel and exits with status 1.
Uncaught == [diag |-> "Traceback", status |-> 1]

\* [mutant] malformed input defers like every other failure.
InputHandler_Defers(exc) ==
    IF exc = "JSONDecodeError"
    THEN [diag |-> "Error: Invalid JSON input", status |-> 0]
    ELSE Uncaught

\* The except clause around json.load(sys.stdin), lines 30-32.
InputHandler(exc) ==
    IF exc = "JSONDecodeError"
    THEN [diag |-> "Error: Invalid JSON input", status |-> 1]
    ELSE Uncaught

\* [mutant] no clause for socket.error: it is not caught.
ExceptHandler_NoSocketErrorClause(exc) ==
    IF exc = "socket.timeout"
    THEN [diag |-> "Error: Timeout waiting for permission decision", status |-> 0]
    ELSE IF exc = "JSONDecodeError"
    THEN [diag |-> "Error: Invalid JSON response", status |-> 0]
    ELSE Uncaught

\* [mutant] the socket.error clause comes first and takes the timeouts too.
ExceptHandler_SocketErrorFirst(exc) ==
    IF exc \in {"socket.error", "socket.timeout"}
    THEN [diag |-> "Error: Socket error", status |-> 0]
    ELSE IF exc = "JSONDecodeError"
    THEN [diag |-> "Error: Invalid JSON response", status |-> 0]
    ELSE Uncaught

\* The except clauses of the exchange, lines 102-110.  socket.timeout is
\* a subclass of socket.error and is matched first.
ExceptHandler(exc) ==
    IF exc = "socket.timeout"
    THEN [diag |-> "Error: Timeout waiting for permission decision", status |-> 0]
    ELSE IF exc = "socket.error"
    THEN [diag |-> "Error: Socket error", status |-> 0]
    ELSE IF exc = "JSONDecodeError"
    THEN [diag |-> "Error: Invalid JSON response", status |-> 0]
    ELSE Uncaught

----------------------------------------------------------------------------
(* State *)

Init ==
    /\ env \in EnvValues
    /\ stdin \in StdinInputs
    /\ authority \in ResponseValues
    /\ pc = "resolve"
    /\ stdinRead = FALSE
    /\ request = NoRequest
    /\ sock = "none"
    /\ sent = "none"
    /\ inflight = <<>>
    /\ peerClosed = FALSE
    /\ response_bytes = <<>>
    /\ response = NoValue
    /\ stdout = <<>>
    /\ stderr = <<>>
    /\ exitStatus = NotExited
    /\ raised = "none"
    /\ waited = 0
    /\ elapsed = 0

inputs == <<env, stdin, authority>>
peer == <<inflight, peerClosed>>
clock == <<waited, elapsed>>

\* The process ends: the diagnostic (if any) goes to the error channel, and
\* the kernel drops what the peer wrote and the hook never read.
Exit(exc, h) ==
    /\ raised' = exc
    /\ inflight' = <<>>
    /\ stderr' = IF h.diag = "" THEN stderr ELSE Append(stderr, h.diag)
    /\ exitStatus' = {h.status}
    /\ pc' = "done"

\* sys.exit(0) with nothing printed.
Silent == [diag |-> "", status |-> 0]

----------------------------------------------------------------------------
(* main(), one action per step between two blocking points *)

\* Lines 23-26: no socket configured, defer at once.
ResolveEndpoint ==
    /\ pc = "resolve"
    /\ IF EndpointConfigured(env)
       THEN /\ pc' = "parse"
            /\ UNCHANGED <<raised, stderr, exitStatus, inflight>>
       ELSE Exit("none", Silent)
    /\ UNCHANGED <<inputs, peerClosed, clock, stdinRead, request, sock, sent,
                   response_bytes, response, stdout>>

\* Lines 28-32: json.load(sys.stdin).  Bytes that are not UTF-8 raise
\* UnicodeDecodeError when standard input decodes strictly, and reach the
\* JSON decoder as escaped characters (which are not JSON) when it
\* decodes with surrogateescape, as it does under the C locale.
ParseQuery ==
    /\ pc = "parse"
    /\ stdinRead' = TRUE
    /\ \/ /\ stdin.kind \in {"object", "array"}
          /\ pc' = "build"
          /\ UNCHANGED <<raised, stderr, exitStatus, inflight>>
       \/ /\ stdin.kind \in {"notjson", "badutf8"}
          /\ Exit("JSONDecodeError", InputHandler("JSONDecodeError"))
       \/ /\ stdin.kind = "badutf8"
          /\ Exit("UnicodeDecodeError", InputHandler("UnicodeDecodeError"))
    /\ UNCHANGED <<inputs, peerClosed, clock, request, sock, sent, response_bytes,
                   response, stdout>>

\* Lines 34-45: input_data.get(...) exists only on a dict; the calls are
\* outside every try block.
BuildRequestStep ==
    /\ pc = "build"
    /\ IF stdin.kind = "object"
       THEN /\ request' = BuildRequest(InputData(stdin.query))
            /\ pc' = "socket"
            /\ UNCHANGED <<raised, stderr, exitStatus, inflight>>
       ELSE /\ Exit("AttributeError", Uncaught)
            /\ UNCHANGED request
    /\ UNCHANGED <<inputs, peerClosed, clock, stdinRead, sock, sent, response_bytes,
                   response, stdout>>

\* Lines 49-50: socket.socket(...) and settimeout(60).
CreateSocket ==
    /\ pc = "socket"
    /\ sock' = "open"
    /\ pc' = "connect"
    /\ UNCHANGED <<inputs, peer, clock, stdinRead, request, sent, response_bytes,
                   response, stdout, raised, stderr, exitStatus>>

\* socket.socket(...) itself fails (no descriptor left).
CreateSocketError ==
    /\ pc = "socket"
    /\ Exit("socket.error", ExceptHandler("socket.error"))
    /\ UNCHANGED <<inputs, peerClosed, clock, stdinRead, request, sock, sent,
                   response_bytes, response, stdout>>

\* Line 51: sock.connect(socket_path) returns.
ConnectOK ==
    /\ pc = "connect"
    /\ waited < SOCKET_TIMEOUT
    /\ sock' = "connected"
    /\ pc' = "send"
    /\ waited' = 0
    /\ UNCHANGED <<inputs, peer, elapsed, stdinRead, request, sent, response_bytes,
                   response, stdout, raised, stderr, exitStatus>>

\* Line 51: connection refused, no such file, ...
ConnectError ==
    /\ pc = "connect"
    /\ waited < SOCKET_TIMEOUT
    /\ Exit("socket.error", ExceptHandler("socket.error"))
    /\ UNCHANGED <<inputs, peerClosed, clock, stdinRead, request, sock, sent,
                   response_bytes, response, stdout>>

\* Line 55: sock.sendall(request_bytes) returns, all bytes written.
SendOK ==
    /\ pc = "send"
    /\ waited < SOCKET_TIMEOUT
    /\ sent' = "full"
    /\ pc' = "recv"
    /\ waited' = 0
    /\ UNCHANGED <<inputs, peer, elapsed, stdinRead, request, sock, response_bytes,
                   response, stdout, raised, stderr, exitStatus>>

\* Line 55: the write fails (broken pipe), after none or some of the bytes.
SendError ==
    /\ pc = "send"
    /\ waited < SOCKET_TIMEOUT
    /\ sent' \in {"none", "partial"}
    /\ Exit("socket.error", ExceptHandler("socket.error"))
    /\ UNCHANGED <<inputs, peerClosed, clock, stdinRead, request, sock, response_bytes,
                   response, stdout>>

\* [mutant] the loop does not look for the newline: it reads until the peer
\* closes.
RecvChunk_ReadsOn ==
    /\ pc = "recv"
    /\ waited < SOCKET_TIMEOUT
    /\ \E k \in 1..Len(inflight) :
        /\ response_bytes' = Cat(response_bytes, SubSeq(inflight, 1, k))
        /\ inflight' = SubSeq(inflight, k + 1, Len(inflight))
    /\ waited' = 0
    /\ UNCHANGED <<inputs, peerClosed, elapsed, pc, stdinRead, request, sock, sent,
                   response, stdout, raised, stderr, exitStatus>>

\* Lines 60-65: sock.recv(4096) returns a non-empty chunk, any prefix of
\* what the peer has written; the loop ends at the first newline seen.
RecvChunk ==
    /\ pc = "recv"
    /\ waited < SOCKET_TIMEOUT
    /\ \E k \in 1..Len(inflight) :
        LET chunk == SubSeq(inflight, 1, k)
            buf == Cat(response_bytes, chunk)
        IN  /\ response_bytes' = buf
            /\ inflight' = SubSeq(inflight, k + 1, Len(inflight))
            /\ pc' = IF HasNewline(buf) THEN "close" ELSE "recv"
    /\ waited' = 0
    /\ UNCHANGED <<inputs, peerClosed, elapsed, stdinRead, request, sock, sent,
                   response, stdout, raised, stderr, exitStatus>>

\* Lines 60-62: the peer has closed and nothing is left to read.
RecvEOF ==
    /\ pc = "recv"
    /\ waited < SOCKET_TIMEOUT
    /\ peerClosed /\ inflight = <<>>
    /\ pc' = "close"
    /\ waited' = 0
    /\ UNCHANGED <<inputs, peer, elapsed, stdinRead, request, sock, sent,
                   response_bytes, response, stdout, raised, stderr, exitStatus>>

\* Line 60: the read fails (connection reset).
RecvError ==
    /\ pc = "recv"
    /\ waited < SOCKET_TIMEOUT
    /\ Exit("socket.error", ExceptHandler("socket.error"))
    /\ UNCHANGED <<inputs, peerClosed, clock, stdinRead, request, sock, sent,
                   response_bytes, response, stdout>>

\* Lines 51, 55, 60: the call in progress has been blocked for the whole
\* socket timeout and raises socket.timeout.
SocketTimeout ==
    /\ pc \in {"connect", "send", "recv"}
    /\ waited = SOCKET_TIMEOUT
    /\ sent' \in (IF pc = "send" THEN {"none", "partial"} ELSE {sent})
    /\ Exit("socket.timeout", ExceptHandler("socket.timeout"))
    /\ UNCHANGED <<inputs, peerClosed, clock, stdinRead, request, sock, response_bytes,
                   response, stdout>>

\* Line 67: sock.close(); what was not read is dropped.
Close ==
    /\ pc = "close"
    /\ sock' = "closed"
    /\ inflight' = <<>>
    /\ pc' = "map"
    /\ UNCHANGED <<inputs, peerClosed, clock, stdinRead, request, sent, response_bytes,
                   response, stdout, raised, stderr, exitStatus>>

\* [mutant] the empty reply is reported as a failure of the hook.
EmptyResponse_Fatal == [diag |-> "Error: Empty response from Banjo", status |-> 1]

\* Lines 69-71: the peer closed before sending anything.
EmptyResponse == [diag |-> "Error: Empty response from Banjo", status |-> 0]

\* [mutant] fail open: a reply that cannot be parsed grants the request.
MapResult_FailOpen(buf) ==
    LET parsed == JsonLoads(Strip(buf))
    IN  IF buf = <<>>
        THEN [exc |-> "none", h |-> EmptyResponse, response |-> NoValue, out |-> <<>>]
        ELSE IF DecodeFails(buf)
        THEN [exc |-> "UnicodeDecodeError", h |-> ExceptHandler("UnicodeDecodeError"),
              response |-> NoValue, out |-> <<>>]
        ELSE IF ~parsed.ok
        THEN [exc |-> "none", h |-> Silent, response |-> NoValue, out |-> <<AllowDoc>>]
        ELSE IF parsed.value.kind # "object"
        THEN [exc |-> "AttributeError", h |-> ExceptHandler("AttributeError"),
              response |-> parsed.value, out |-> <<>>]
        ELSE [exc |-> "none", h |-> Silent,
              response |-> parsed.value, out |-> HookOutput(parsed.value)]

\* Lines 69-100 as a function of the accumulated bytes: the exception
\* raised (if any), how the process ends, the parsed response and what is
\* printed.  All of the bytes are decoded, stripped and parsed, also those
\* that follow the first newline.
MapResult(buf) ==
    LET parsed == JsonLoads(Strip(buf))
    IN  IF buf = <<>>
        THEN [exc |-> "none", h |-> EmptyResponse, response |-> NoValue, out |-> <<>>]
        ELSE IF DecodeFails(buf)
        THEN [exc |-> "UnicodeDecodeError", h |-> ExceptHandler("UnicodeDecodeError"),
              response |-> NoValue, out |-> <<>>]
        ELSE IF ~parsed.ok
        THEN [exc |-> "JSONDecodeError", h |-> ExceptHandler("JSONDecodeError"),
              response |-> NoValue, out |-> <<>>]
        ELSE IF parsed.value.kind # "object"
        THEN [exc |-> "AttributeError", h |-> ExceptHandler("AttributeError"),
              response |-> parsed.value, out |-> <<>>]
        ELSE [exc |-> "none", h |-> Silent,
              response |-> parsed.value, out |-> HookOutput(parsed.value)]

\* Lines 69-100: the empty reply, decoding, parsing, mapping and printing.
MapAndEmit ==
    /\ pc = "map"
    /\ LET r == MapResult(response_bytes)
       IN  /\ response' = r.response
           /\ stdout' = stdout \o r.out
           /\ Exit(r.exc, r.h)
    /\ UNCHANGED <<inputs, peerClosed, clock, stdinRead, request, sock, sent, response_bytes>>

----------------------------------------------------------------------------
(* The approval authority and the clock *)

\* The peer writes one more token of its reply, or of anything else.
PeerSend ==
    /\ pc \in {"send", "recv"}
    /\ ~peerClosed
    /\ \E tok \in PeerTokens(authority) :
        /\ Len(Cat(response_bytes, Cat(inflight, <<tok>>))) <= MaxStream
        /\ inflight' = Cat(inflight, <<tok>>)
    /\ UNCHANGED <<inputs, peerClosed, clock, pc, stdinRead, request, sock, sent,
                   response_bytes, response, stdout, raised, stderr, exitStatus>>

\* The peer closes its end of the connection.
PeerClose ==
    /\ pc \in {"send", "recv"}
    /\ ~peerClosed
    /\ peerClosed' = TRUE
    /\ UNCHANGED <<inputs, inflight, clock, pc, stdinRead, request, sock, sent,
                   response_bytes, response, stdout, raised, stderr, exitStatus>>

\* Time passes while a socket call is blocked: connect and sendall wait for
\* the peer, recv waits while nothing can be read.
Blocked ==
    \/ pc \in {"connect", "send"}
    \/ pc = "recv" /\ inflight = <<>> /\ ~peerClosed

Tick ==
    /\ Blocked
    /\ waited < SOCKET_TIMEOUT
    /\ waited' = Min(waited + TickSeconds, SOCKET_TIMEOUT)
    /\ elapsed' = Min(elapsed + TickSeconds, ElapsedCap)
    /\ UNCHANGED <<inputs, peer, pc, stdinRead, request, sock, sent, response_bytes,
                   response, stdout, raised, stderr, exitStatus>>

\* What the interpreter does on its own as soon as it can: the steps that
\* wait for nothing, a recv that has something to return, and the expiry
\* of the socket timeout.
Progress ==
    \/ ResolveEndpoint \/ ParseQuery \/ BuildRequestStep
    \/ CreateSocket \/ CreateSocketError
    \/ RecvChunk \/ RecvEOF
    \/ SocketTimeout
    \/ Close \/ MapAndEmit

\* What the kernel and the peer decide: a socket call completes or fails.
SocketEvent ==
    \/ ConnectOK \/ ConnectError
    \/ SendOK \/ SendError
    \/ RecvError

Next == Progress \/ SocketEvent \/ PeerSend \/ PeerClose \/ Tick

Spec == Init /\ [][Next]_vars

\* The interpreter keeps running the hook, and time keeps passing: the clock
\* advances again and again if the hook blocks again and again.  Nothing is
\* assumed of the peer or of the outcome of a socket call.
FairSpec == Spec /\ WF_vars(Progress) /\ SF_vars(Tick)

\* The invocations of the request round trip: the same program, run on the
\* wider set of queries against an authority that grants.
RequestInputs ==
    {[kind |-> "notjson", query |-> NoRequest],
     [kind |-> "badutf8", query |-> NoRequest],
     [kind |-> "array", query |-> NoRequest]}
    \cup {[kind |-> "object", query |-> q] : q \in RequestQueries}

InitRequest ==
    /\ env \in EnvValues
    /\ stdin \in RequestInputs
    /\ authority = Obj("allow", Absent)
    /\ pc = "resolve"
    /\ stdinRead = FALSE
    /\ request = NoRequest
    /\ sock = "none"
    /\ sent = "none"
    /\ inflight = <<>>
    /\ peerClosed = FALSE
    /\ response_bytes = <<>>
    /\ response = NoValue
    /\ stdout = <<>>
    /\ stderr = <<>>
    /\ exitStatus = NotExited
    /\ raised = "none"
    /\ waited = 0
    /\ elapsed = 0

SpecRequest == InitRequest /\ [][Next]_vars

TypeOK ==
    /\ pc \in {"resolve", "parse", "build", "socket", "connect", "send", "recv",
               "close", "map", "done"}
    /\ exitStatus \in {NotExited, {0}, {1}}
    /\ (pc = "done") = (exitStatus # NotExited)
    /\ sock \in {"none", "open", "connected", "closed"}
    /\ sent \in {"none", "partial", "full"}
    /\ waited \in 0..SOCKET_TIMEOUT
    /\ elapsed \in 0..ElapsedCap
    /\ Len(stdout) <= 1
    /\ Len(response_bytes) + Len(inflight) <= MaxStream + 1

----------------------------------------------------------------------------
(* Properties *)

Done == pc = "done"
Deferred == stdout = <<>> /\ exitStatus = {0}
MalformedInput == stdin.kind \in {"notjson", "badutf8"}
ParsedObject == response.kind = "object"

\* C1: whenever the reply parsed to an object whose decision is "allow",
\* whatever its message, the process ends with exactly the allow document
\* on standard output and exit status 0.
C1_AllowEmitsAllowDocument ==
    (Done /\ ParsedObject /\ response.decision = "allow")
        => (stdout = <<AllowDoc>> /\ exitStatus = {0})

\* C1 witness: an allow reply that also carries a message was mapped.
C1_Witness ==
    /\ Done /\ EndpointConfigured(env) /\ stdin.kind = "object"
    /\ response = Obj("allow", "no")
    /\ stdout = <<AllowDoc>>

\* C2: whenever the reply parsed to an object whose decision is "deny", the
\* process ends with status 0 and one document whose behavior is "deny" and
\* whose message is the reply's message when that is a non-empty string and
\* "Permission denied by user" when it is empty or absent.
C2_DenyCarriesMessageOrDefault ==
    (Done /\ ParsedObject /\ response.decision = "deny")
        => /\ exitStatus = {0}
           /\ Len(stdout) = 1
           /\ DOMAIN stdout[1] = {"hookSpecificOutput"}
           /\ LET d == stdout[1].hookSpecificOutput.decision
                  m == response.message
              IN  /\ d.behavior = "deny"
                  /\ m \notin {Absent, "", JNull} => d.message = m
                  /\ m \in {Absent, ""} => d.message = "Permission denied by user"

\* C2 witness: a deny reply with an empty message got the default reason.
C2_Witness ==
    /\ Done /\ response = Obj("deny", "")
    /\ stdout = <<DenyDoc("Permission denied by user")>>

\* C3: whenever the reply parsed to an object whose decision is absent,
\* empty, "ask" or any other string than "allow" and "deny", standard output
\* is empty and the exit status is 0.
C3_OtherDecisionsDefer ==
    (Done /\ ParsedObject /\ response.decision \notin {"allow", "deny"})
        => Deferred

\* C3 witness: an unrecognised decision was parsed and deferred.
C3_Witness ==
    /\ Done /\ response = Obj("yes", Absent) /\ Deferred

\* C4: with the endpoint variable unset the hook does nothing but exit:
\* it is never anywhere but at its first statement or ended, it has not
\* read standard input, created a socket or sent anything, standard output
\* is empty and the exit status is 0, whatever the input.
C4_UnsetEndpointDefersAtOnce ==
    env = Absent
        => /\ pc \in {"resolve", "done"}
           /\ ~stdinRead /\ sock = "none" /\ sent = "none"
           /\ stdout = <<>>
           /\ Done => exitStatus = {0}

\* C4 witness: ended with the endpoint unset and an input that is not JSON.
C4_Witness ==
    Done /\ env = Absent /\ stdin.kind = "notjson" /\ exitStatus = {0}

C6_ExitOneIffMalformedInput ==
    (Done /\ EndpointConfigured(env))
        => (exitStatus = {1} <=> MalformedInput)

\* C7: a socket error raised by connect, sendall or recv ends the process
\* with the socket-error diagnostic on the error channel, nothing on
\* standard output and exit status 0.
C7_SocketErrorDefers ==
    raised = "socket.error"
        => (Done /\ Deferred /\ stderr = <<"Error: Socket error">>)

\* C7 witness: the read failed after part of a reply had been accumulated.
C7_Witness ==
    /\ raised = "socket.error" /\ sent = "full" /\ response_bytes # <<>>
    /\ Deferred

\* C8: a timeout raised by connect, sendall or recv ends the process with
\* the timeout diagnostic, nothing on standard output and exit status 0;
\* what had been accumulated is never parsed.
C8_TimeoutDefers ==
    raised = "socket.timeout"
        => /\ Done /\ Deferred
           /\ stderr = <<"Error: Timeout waiting for permission decision">>
           /\ response = NoValue

\* C8 witness: recv timed out on a complete allow reply that lacked its
\* newline.
C8_Witness ==
    /\ raised = "socket.timeout"
    /\ response_bytes = <<Tok("doc", Obj("allow", Absent))>>
    /\ Deferred

\* C9 as stated: at no time has the hook spent more than SOCKET_TIMEOUT
\* seconds since it entered sock.connect().  (elapsed counts only the time
\* spent blocked in socket calls, so it never exceeds the real time.)
C9_DeadlineIsCumulative == elapsed <= SOCKET_TIMEOUT

\* C10 as stated: every invocation eventually ends, whatever the peer does.
C10_EventuallyTerminates == <>Done

\* C11: when the peer has closed without the hook having received a byte,
\* the process ends with a diagnostic on the error channel, nothing on
\* standard output and exit status 0; when the hook saw the end of the
\* stream and closed its socket, the diagnostic is the empty-response one.
C11_EmptyResponseDefers ==
    /\ (Done /\ peerClosed /\ response_bytes = <<>>)
          => (Deferred /\ Len(stderr) = 1)
    /\ (Done /\ sock = "closed" /\ response_bytes = <<>>)
          => (Deferred /\ stderr = <<"Error: Empty response from Banjo">>)

\* C11 witness: recv returned the empty chunk of a closed peer, the socket
\* was closed and the empty reply reported.
C11_Witness ==
    /\ Done /\ peerClosed /\ sock = "closed" /\ sent = "full"
    /\ response_bytes = <<>> /\ raised = "none"
    /\ stderr = <<"Error: Empty response from Banjo">>

\* The received reply is not a JSON object: its bytes are not UTF-8, or
\* its text is not JSON (a truncated object included), or its value is
\* not an object.
UnusableResponse ==
    /\ response_bytes # <<>>
    /\ \/ DecodeFails(response_bytes)
       \/ ~JsonLoads(Strip(response_bytes)).ok
       \/ JsonLoads(Strip(response_bytes)).value.kind # "object"

\* C12 as stated: every non-empty reply that is not a JSON object ends in
\* the defer outcome, empty standard output and exit status 0.
C12_UnusableResponseDefers ==
    (Done /\ sock = "closed" /\ UnusableResponse) => Deferred

\* The documents the caller understands.
IsDecisionDocument(d) ==
    \/ d = AllowDoc
    \/ /\ DOMAIN d = {"hookSpecificOutput"}
       /\ DOMAIN d.hookSpecificOutput = {"hookEventName", "decision"}
       /\ d.hookSpecificOutput.hookEventName = "PermissionRequest"
       /\ DOMAIN d.hookSpecificOutput.decision = {"behavior", "message"}
       /\ d.hookSpecificOutput.decision.behavior = "deny"

\* C13: standard output is empty or holds exactly one allow or deny
\* document, and then the process has ended with status 0 and without a
\* diagnostic; it is written at most once, by the step that ends the
\* process with status 0.
C13_StdoutCarriesAtMostOneDocument ==
    /\ [](\/ stdout = <<>>
          \/ /\ Len(stdout) = 1 /\ IsDecisionDocument(stdout[1])
             /\ Done /\ exitStatus = {0} /\ stderr = <<>> /\ raised = "none")
    /\ [][stdout' # stdout
            => /\ stdout = <<>> /\ ~Done
               /\ pc' = "done" /\ exitStatus' = {0} /\ stderr' = <<>>]_vars

\* C13 witness: a deny document was printed and the process ended.
C13_Witness ==
    /\ Done /\ Len(stdout) = 1 /\ stdout[1] # AllowDoc
    /\ IsDecisionDocument(stdout[1]) /\ exitStatus = {0} /\ stderr = <<>>

\* C14 as stated: in every terminated state reached after the socket was
\* created, the hook has called sock.close().
C14_SocketClosedOnEveryExit ==
    (Done /\ sock # "none") => sock = "closed"

\* The recoverable conditions: no endpoint, a socket error (connection
\* failure included), a timeout, an empty reply, a malformed reply, a
\* decision that is neither "allow" nor "deny".
Recoverable ==
    \/ ~EndpointConfigured(env)
    \/ raised \in {"socket.error", "socket.timeout"}
    \/ /\ sock = "closed"
       /\ \/ response_bytes = <<>>
          \/ UnusableResponse
          \/ ParsedObject /\ response.decision \notin {"allow", "deny"}

\* C15 as stated: each recoverable condition ends with a diagnostic on the
\* error channel, exit status 0 and nothing on standard output.
C15_RecoverableHandledIdentically ==
    (Done /\ Recoverable) => (Deferred /\ stderr # <<>>)

\* A reference decoder of JSON texts (RFC 8259) over the characters of the
\* model: ParseValue(t, i) reads one value of text t from position i and
\* yields it with the position that follows it.
IsJsonNumber(tok) == tok \in {"7", "1.5", "1E2", "1e400", "100.0"}
IsSpace(tok) == tok \in {" ", LF}
ParseFail == [ok |-> FALSE, v |-> Missing, i |-> 0]
ParseOK(v, i) == [ok |-> TRUE, v |-> v, i |-> i]

RECURSIVE SkipSpace(_, _)
SkipSpace(t, i) == IF i <= Len(t) /\ IsSpace(t[i]) THEN SkipSpace(t, i + 1) ELSE i

\* The characters of a string, from position i to the closing quote.
RECURSIVE ParseChars(_, _, _)
ParseChars(t, i, acc) ==
    IF i > Len(t) \/ t[i] = LF THEN ParseFail
    ELSE IF t[i] = QUOTE THEN ParseOK(JStr(acc), i + 1)
    ELSE IF t[i] # BSLASH THEN ParseChars(t, i + 1, Append(acc, t[i]))
    ELSE IF i + 1 > Len(t) THEN ParseFail
    ELSE IF t[i + 1] \in {QUOTE, BSLASH} THEN ParseChars(t, i + 2, Append(acc, t[i + 1]))
    ELSE IF t[i + 1] = "n" THEN ParseChars(t, i + 2, Append(acc, LF))
    ELSE IF /\ t[i + 1] = "u" /\ i + 5 <= Len(t)
            /\ SubSeq(t, i + 2, i + 5) = <<"0", "0", "e", "9">>
    THEN ParseChars(t, i + 6, Append(acc, EACUTE))
    ELSE ParseFail

RECURSIVE ParseValue(_, _)
RECURSIVE ParseItems(_, _, _, _)
\* The members of an object or the values of an array, from position i0 to
\* the closing bracket.
ParseItems(t, i0, acc, isObject) ==
    LET close == IF isObject THEN "}" ELSE "]"
        kind == IF isObject THEN "obj" ELSE "arr"
        i == SkipSpace(t, i0)
    IN  IF i > Len(t) THEN ParseFail
        ELSE IF t[i] = close /\ acc = <<>> THEN ParseOK(JV(kind, <<>>, acc), i + 1)
        ELSE LET key == IF ~isObject THEN ParseOK(JStr(<<>>), i)
                        ELSE IF t[i] = QUOTE THEN ParseChars(t, i + 1, <<>>)
                        ELSE ParseFail
             IN  IF ~key.ok THEN ParseFail
                 ELSE LET c == SkipSpace(t, key.i)
                      IN  IF isObject /\ (c > Len(t) \/ t[c] # ":") THEN ParseFail
                          ELSE LET val == ParseValue(t, IF isObject THEN c + 1 ELSE i)
                               IN  IF ~val.ok THEN ParseFail
                                   ELSE LET n == SkipSpace(t, val.i)
                                            acc2 == Append(acc, Member(key.v.s, val.v))
                                        IN  IF n > Len(t) THEN ParseFail
                                            ELSE IF t[n] = "," THEN ParseItems(t, n + 1, acc2, isObject)
                                            ELSE IF t[n] = close THEN ParseOK(JV(kind, <<>>, acc2), n + 1)
                                            ELSE ParseFail
ParseValue(t, i0) ==
    LET i == SkipSpace(t, i0)
    IN  IF i > Len(t) THEN ParseFail
        ELSE IF t[i] = QUOTE THEN ParseChars(t, i + 1, <<>>)
        ELSE IF t[i] = "{" THEN ParseItems(t, i + 1, <<>>, TRUE)
        ELSE IF t[i] = "[" THEN ParseItems(t, i + 1, <<>>, FALSE)
        ELSE IF t[i] = "null" THEN ParseOK(JNone, i + 1)
        ELSE IF IsJsonNumber(t[i]) THEN ParseOK(JNum(t[i]), i + 1)
        ELSE ParseFail

\* The value of a text that is one JSON value and nothing else.
RefLoads(text) ==
    LET r == ParseValue(text, 1)
    IN  IF r.ok /\ SkipSpace(text, r.i) > Len(text)
        THEN [ok |-> TRUE, value |-> r.v]
        ELSE [ok |-> FALSE, value |-> Missing]

\* The number a literal denotes, and a value with its numbers denoted.
NumValue(literal) ==
    CASE literal = "7" -> "7"
      [] literal = "1.5" -> "3/2"
      [] literal \in {"1E2", "100.0"} -> "100"
      [] literal = "1e400" -> "10^400"
RECURSIVE Denoted(_)
Denoted(v) ==
    IF v.k = "num" THEN JV("num", <<NumValue(v.s[1])>>, <<>>)
    ELSE JV(v.k, v.s, [i \in 1..Len(v.c) |-> Member(v.c[i].key, Denoted(v.c[i].val))])

\* What the claim expects on the wire for a key of the query.
ExpectedField(query, key) ==
    IF query[key] # Missing THEN query[key]
    ELSE IF key = "tool_input" THEN JObject(<<>>)
    ELSE JStr(<<>>)

RequestKeys == <<"tool_name", "tool_input", "tool_use_id", "session_id">>

\* C16 as stated: once the request is written, its bytes are one JSON text
\* followed by the only newline; the text decodes to an object with
\* exactly the four keys, and each key's value is the query's value for
\* it, or the empty string (the empty object for tool_input) when the query
\* has no such key.
C16_RequestRoundTrips ==
    sent = "full"
        => LET bytes == RequestBytes(request)
               text == SubSeq(bytes, 1, Len(bytes) - 1)
               decoded == RefLoads(text)
           IN  /\ bytes[Len(bytes)] = LF
               /\ \A i \in 1..Len(text) : text[i] # LF
               /\ decoded.ok /\ decoded.value.k = "obj"
               /\ Len(decoded.value.c) = Len(RequestKeys)
               /\ \A i \in 1..Len(RequestKeys) :
                    /\ decoded.value.c[i].key = <<RequestKeys[i]>>
                    /\ Denoted(decoded.value.c[i].val)
                         = Denoted(ExpectedField(stdin.query, RequestKeys[i]))

\* The order of the statements of main().
Rank(p) ==
    CASE p = "resolve" -> 0 [] p = "parse" -> 1 [] p = "build" -> 2
      [] p = "socket" -> 3 [] p = "connect" -> 4 [] p = "send" -> 5
      [] p = "recv" -> 6 [] p = "close" -> 7 [] p = "map" -> 8
      [] p = "done" -> 9

\* C17: main() never goes back to an earlier statement; it creates one
\* socket and connects it once; it attempts one write, from sendall only;
\* it receives only after the whole request was written; a socket error or
\* a timeout ends the process at once; once recv has seen the peer's close
\* or the buffer holds a newline the hook is past the receive loop, and
\* from there on it connects, sends and receives nothing.
C17_SingleShot ==
    [][/\ Rank(pc') >= Rank(pc)
       /\ sock' # sock
            => <<sock, sock'>> \in {<<"none", "open">>, <<"open", "connected">>,
                                   <<"connected", "closed">>}
       /\ sock' = "connected" /\ sock # "connected" => pc = "connect"
       /\ sent' # sent => sent = "none" /\ pc = "send" /\ pc' # "send"
       /\ response_bytes' # response_bytes
            => sent = "full" /\ sock = "connected" /\ pc = "recv"
       /\ raised' \in {"socket.error", "socket.timeout"} => pc' = "done"
       /\ HasNewline(response_bytes') => pc' \in {"close", "map", "done"}
       /\ pc = "recv" /\ peerClosed /\ inflight = <<>> => pc' \in {"close", "done"}
       /\ pc \in {"close", "map", "done"}
            => /\ UNCHANGED <<sent, response_bytes>>
               /\ sock' \in {sock, "closed"}
      ]_vars

\* C17 witness: the receive loop ended at the first newline although the
\* peer had written more, and the rest was never read.
C17_Witness ==
    /\ pc = "close" /\ sock = "connected" /\ sent = "full"
    /\ response_bytes = <<Tok("doc", authority), NL>>
    /\ inflight = <<JUNK>>

\* C18: a document is on standard output only if the socket was connected,
\* the request written in full, and the bytes received from the authority
\* parsed to the object the authority sent, whose decision is "allow" for
\* the allow document and "deny" for a deny document; when no response
\* object was parsed, standard output is empty.
C18_NeverDecidesOnItsOwn ==
    /\ stdout # <<>>
          => /\ sock = "closed" /\ sent = "full" /\ response_bytes # <<>>
             /\ ~DecodeFails(response_bytes)
             /\ JsonLoads(Strip(response_bytes)) = [ok |-> TRUE, value |-> response]
             /\ ParsedObject /\ response = authority
             /\ response.decision \in {"allow", "deny"}
             /\ (stdout[1] = AllowDoc) = (response.decision = "allow")
    /\ ~ParsedObject => stdout = <<>>

\* C18 witness: an allow decision that arrived in two pieces was granted.
C18_Witness ==
    /\ Done /\ stdout = <<AllowDoc>> /\ authority = Obj("allow", Absent)
    /\ response_bytes = <<Tok("head", authority), Tok("tail", authority), NL>>

\* The bytes up to and including the first newline (all of them if there
\* is none).
RECURSIVE FirstLine(_)
FirstLine(buf) ==
    IF buf = <<>> THEN <<>>
    ELSE IF buf[1].t = "nl" THEN <<buf[1]>>
    ELSE <<buf[1]>> \o FirstLine(Tail(buf))

\* C19 as stated: the outcome is the one of the bytes up to and including
\* the first newline, which is what the hook maps when recv happens to
\* return exactly those bytes; what recv returned after the newline in the
\* same chunk changes neither standard output nor the exit status.
C19_OutcomeFromFirstLineOnly ==
    (Done /\ sock = "closed")
        => /\ stdout = MapResult(FirstLine(response_bytes)).out
           /\ exitStatus = {MapResult(FirstLine(response_bytes)).h.status}

\* C20 as stated: the hook has a socket, or is anywhere from socket
\* creation on, only once standard input was read and decoded to the query
\* the request was built from; and whenever the process ends with status 1
\* no socket was created, no connection attempted and no byte sent.
C20_InputValidatedBeforeNetwork ==
    /\ (sock # "none" \/ sent # "none" \/ Rank(pc) \in 3..8)
          => /\ stdinRead /\ stdin.kind = "object"
             /\ request = BuildRequest(InputData(stdin.query))
    /\ exitStatus = {1} => (sock = "none" /\ sent = "none")

====
